---- MODULE Spec2Model ----
(***************************************************************************)
(* Model of src/data_pipeline.py: the ingestion pipeline made of the       *)
(* SQLite ledger (tables processed_files and dataset),                     *)
(* FocusConverterService, DatasetBuilder, the watchdog Handler and         *)
(* Pipeline.run.                                                           *)
(*                                                                         *)
(* The running threads are a bag of records: the main thread (Pipeline.run:*)
(* the catch-up pass, then the observer loop) and the threads that         *)
(* Handler.on_created starts, one per creation event.  A thread that ends  *)
(* leaves the bag.  Every database call opens a connection of its own, so  *)
(* each call is one step and the calls of different threads interleave.    *)
(* A call that can raise (sqlite3, pandas, shutil, os) has a failing       *)
(* branch; the exception is a step of its own on its way to the except     *)
(* clause that catches it.                                                 *)
(***************************************************************************)
EXTENDS Integers, Sequences, FiniteSets, Bags, TLC

\* number of threads Handler.on_created may start
MaxWorkers == 2

\* number of times the program may be started on the same database and folders
MaxRuns == 2

\* the *.csv files that may appear in the input folder, and a sub-directory
Files == {"a", "b"}
Dirs == {"d"}
NoFile == "-"

\* columns of the csv files read by pd.read_csv
FileCols(f) == IF f = "a" THEN {"X", "Y"} ELSE {"Y", "Z"}

\* CREATE TABLE dataset (id INTEGER PRIMARY KEY AUTOINCREMENT)
InitCols == {"id"}

VARIABLES
    ledger,      \* processed_files: file_name -> number of rows with that name
    cols,        \* columns of table dataset
    rows,        \* dataset: file -> how many times its rows were appended
    inDir,       \* files present in the input folder
    archive,     \* files present in the archive folder
    events,      \* creation events queued by the observer, not yet delivered
    threads,     \* bag of the running threads: [main, pc, cur, dfs, missing, exc]
    faults,      \* whether sqlite3, pandas, shutil and os may raise in this run
    csv_files,   \* process_existing_files: files of the glob not yet visited
    started,     \* number of threads on_created has started
    calls,       \* history: calls of convert_csv_to_focus per file
    convCount,   \* history: runs of the converter per file
    okCount,     \* history: runs of the converter per file that succeeded
    passResult,  \* history: how convert_csv_to_focus(f) ended in the catch-up pass
    runs         \* number of times the program was started on this database

vars == <<ledger, cols, rows, inDir, archive, events, threads, faults, csv_files,
          started, calls, convCount, okCount, passResult, runs>>

----------------------------------------------------------------------------
\* SQLiteDatabaseManager

\* mutant: result > 1
IsFileProcessedOffByOne(l, f) == l[f] > 1

\* SELECT COUNT(*) FROM processed_files WHERE file_name = ?   ... result > 0
IsFileProcessed(l, f) == l[f] > 0

\* mutant: a plain INSERT into a table without the UNIQUE constraint
MarkFileAsProcessedPlain(l, f) == [l EXCEPT ![f] = l[f] + 1]

\* INSERT OR IGNORE INTO processed_files (file_name) VALUES (?), file_name UNIQUE
MarkFileAsProcessed(l, f) == IF l[f] > 0 THEN l ELSE [l EXCEPT ![f] = l[f] + 1]

\* missing_columns = df_columns - existing_columns
MissingColumns(df_columns, existing_columns) == df_columns \ existing_columns

\* ALTER TABLE dataset ADD COLUMN c TEXT
AddColumn(existing_columns, c) == existing_columns \cup {c}

\* mutant: if_exists='replace': the table is created anew from df
ToSqlColumnsReplace(existing_columns, df_columns) == df_columns

\* df.to_sql('dataset', conn, if_exists='append'): the table keeps its columns
ToSqlColumns(existing_columns, df_columns) == existing_columns

\* pd.read_csv(file_path): the rows of the file at file_path, which the
\* callers pass the path of the source file in the input folder
ReadCsv(file_path) == [path |-> file_path, kind |-> "source"]

\* the rows converter.convert() exports to output_folder for file_path
Exported(file_path) == [path |-> file_path, kind |-> "focus"]

RECURSIVE BatchCols(_)
\* pd.concat(dataframes): the columns of the concatenation
BatchCols(dfs) ==
    IF dfs = <<>> THEN {} ELSE FileCols(Head(dfs).path) \cup BatchCols(Tail(dfs))

\* how many of the dataframes of the list were read from file f
Occurrences(dfs, f) == Cardinality({i \in 1..Len(dfs) : dfs[i].path = f})

----------------------------------------------------------------------------
\* threads

\* Pipeline.run, before process_existing_files
MainThread ==
    [main |-> TRUE, pc |-> "start", cur |-> NoFile, dfs |-> <<>>,
     missing |-> {}, exc |-> "none"]

\* Thread(target=self.process, args=(event.src_path,))
WorkerThread(p) ==
    [main |-> FALSE, pc |-> "check", cur |-> p, dfs |-> <<>>,
     missing |-> {}, exc |-> "none"]

Running == BagToSet(threads)
TheMain == CHOOSE th \in Running : th.main
Move(th, to) == (threads (-) SetToBag({th})) (+) SetToBag({to})
Ended(th) == threads (-) SetToBag({th})

\* the statements of the try block of the loop of process_existing_files
LoopBody == {"check", "convert", "read", "archive"}

\* an exception leaves the frames of the callee: Handler.process catches all
\* (except Exception, line 206); process_existing_files catches what its loop
\* body raises (line 248) and nothing else, and Pipeline.run catches nothing
Raise(th, kind) ==
    [th EXCEPT !.pc = IF th.main /\ th.pc \notin LoopBody THEN "crashed" ELSE "except",
               !.exc = kind,
               !.missing = {},
               !.dfs = IF th.main THEN @ ELSE <<>>]

\* the catch-up pass notes how the call for its file ended
Noted(th, result) ==
    IF th.main THEN [passResult EXCEPT ![th.cur] = result] ELSE passResult

Init ==
    /\ ledger = [f \in Files |-> 0]
    /\ cols = InitCols
    /\ rows = [f \in Files |-> 0]
    /\ inDir \in SUBSET Files
    /\ archive = {}
    /\ events = {}
    /\ threads = SetToBag({MainThread})
    /\ faults \in BOOLEAN
    /\ csv_files = {}
    /\ started = 0
    /\ calls = [f \in Files |-> 0]
    /\ convCount = [f \in Files |-> 0]
    /\ okCount = [f \in Files |-> 0]
    /\ passResult = [f \in Files |-> "none"]
    /\ runs = 1

----------------------------------------------------------------------------
\* Pipeline.process_existing_files (main thread)

\* csv_files = glob.glob(input_folder/*.csv); dataframes = []
StartCatchUp(th) ==
    /\ th.main /\ th.pc = "start"
    /\ csv_files' = inDir
    /\ threads' = Move(th, [th EXCEPT !.pc = "loop", !.dfs = <<>>])
    /\ UNCHANGED <<faults, runs, ledger, cols, rows, inDir, archive, events, started,
                   calls, convCount, okCount, passResult>>

\* for file_path in csv_files: (a glob lists in the directory's order)
NextFile(th) ==
    /\ th.main /\ th.pc = "loop"
    /\ \E f \in csv_files :
          /\ threads' = Move(th, [th EXCEPT !.pc = "check", !.cur = f])
          /\ csv_files' = csv_files \ {f}
    /\ UNCHANGED <<faults, runs, ledger, cols, rows, inDir, archive, events, started,
                   calls, convCount, okCount, passResult>>

\* the loop is over: self.dataset_builder.build_dataset(dataframes)
EndLoop(th) ==
    /\ th.main /\ th.pc = "loop"
    /\ csv_files = {}
    /\ threads' = Move(th, [th EXCEPT !.pc = "build", !.cur = NoFile])
    /\ UNCHANGED <<faults, runs, ledger, cols, rows, inDir, archive, events, csv_files,
                   started, calls, convCount, okCount, passResult>>

\* except Exception as e: logger.error(...): the loop goes on with the next
\* file; Handler.process returns and its thread ends
Except(th) ==
    /\ th.pc = "except"
    /\ threads' = IF th.main
                  THEN Move(th, [th EXCEPT !.pc = "loop", !.exc = "none"])
                  ELSE Ended(th)
    /\ UNCHANGED <<faults, runs, ledger, cols, rows, inDir, archive, events, csv_files,
                   started, calls, convCount, okCount, passResult>>

----------------------------------------------------------------------------
\* FocusConverterService.convert_csv_to_focus (any thread)

\* mutant: the check stands inside the try block, whose except clause logs
\* the refusal, and the method returns to its caller
CheckSwallowed(th) ==
    /\ th.pc = "check"
    /\ calls' = [calls EXCEPT ![th.cur] = @ + 1]
    /\ \/ /\ IsFileProcessed(ledger, th.cur)
          /\ threads' = Move(th, [th EXCEPT !.pc = "read"])
          /\ passResult' = Noted(th, "AlreadyProcessed")
       \/ /\ ~IsFileProcessed(ledger, th.cur)
          /\ threads' = Move(th, [th EXCEPT !.pc = "convert"])
          /\ UNCHANGED passResult
       \/ /\ faults
          /\ threads' = Move(th, Raise(th, "StorageFailure"))
          /\ passResult' = Noted(th, "StorageFailure")
    /\ UNCHANGED <<faults, runs, ledger, cols, rows, inDir, archive, events, csv_files,
                   started, convCount, okCount>>

\* if self.db_manager.is_file_processed(file_path): raise Exception(...)
\* The call stands before the try block: what it raises reaches the caller.
Check(th) ==
    /\ th.pc = "check"
    /\ calls' = [calls EXCEPT ![th.cur] = @ + 1]
    /\ \/ /\ IsFileProcessed(ledger, th.cur)
          /\ threads' = Move(th, Raise(th, "AlreadyProcessed"))
          /\ passResult' = Noted(th, "AlreadyProcessed")
       \/ /\ ~IsFileProcessed(ledger, th.cur)
          /\ threads' = Move(th, [th EXCEPT !.pc = "convert"])
          /\ UNCHANGED passResult
       \/ \* sqlite3 raises in is_file_processed
          /\ faults
          /\ threads' = Move(th, Raise(th, "StorageFailure"))
          /\ passResult' = Noted(th, "StorageFailure")
    /\ UNCHANGED <<faults, runs, ledger, cols, rows, inDir, archive, events, csv_files,
                   started, convCount, okCount>>

\* ProviderSensor(...).load() ... converter.convert() run to their end on the
\* source file, then self.db_manager.mark_file_as_processed(file_path); the
\* mark stands inside the try block, so what it raises is logged by the same
\* except clause and the method returns
ConvertOk(th) ==
    /\ th.pc = "convert"
    /\ th.cur \in inDir
    /\ convCount' = [convCount EXCEPT ![th.cur] = @ + 1]
    /\ okCount' = [okCount EXCEPT ![th.cur] = @ + 1]
    /\ \/ /\ ledger' = MarkFileAsProcessed(ledger, th.cur)
          /\ passResult' = Noted(th, "Converted")
       \/ \* sqlite3 raises in mark_file_as_processed
          /\ faults
          /\ ledger' = ledger
          /\ passResult' = Noted(th, "MarkFailed")
    /\ threads' = Move(th, [th EXCEPT !.pc = "read"])
    /\ UNCHANGED <<faults, runs, cols, rows, inDir, archive, events, csv_files, started, calls>>

\* mutant: the mark is moved to a finally clause and runs after a failure too
ConvertFailedMarked(th) ==
    /\ th.pc = "convert"
    /\ convCount' = [convCount EXCEPT ![th.cur] = @ + 1]
    /\ passResult' = Noted(th, "ConversionFailed")
    /\ ledger' = MarkFileAsProcessed(ledger, th.cur)
    /\ threads' = Move(th, [th EXCEPT !.pc = "read"])
    /\ UNCHANGED <<faults, runs, cols, rows, inDir, archive, events, csv_files, started,
                   calls, okCount>>

\* the collaborator raises: except Exception as e: logger.error(...), and the
\* method returns None to its caller as it does after a conversion
ConvertFailed(th) ==
    /\ th.pc = "convert"
    /\ convCount' = [convCount EXCEPT ![th.cur] = @ + 1]
    /\ passResult' = Noted(th, "ConversionFailed")
    /\ threads' = Move(th, [th EXCEPT !.pc = "read"])
    /\ UNCHANGED <<faults, runs, ledger, cols, rows, inDir, archive, events, csv_files,
                   started, calls, okCount>>

----------------------------------------------------------------------------
\* the callers of convert_csv_to_focus: Handler.process (on_created's threads)
\* and the loop body of process_existing_files (main)

\* mutant: the catch-up pass reads the file and forgets dataframes.append(df)
ReadNotAccumulated(th) ==
    /\ th.pc = "read"
    /\ \/ /\ th.cur \in inDir
          /\ threads' = Move(th, IF th.main
                                 THEN [th EXCEPT !.pc = "archive"]
                                 ELSE [th EXCEPT !.pc = "build", !.dfs = <<ReadCsv(th.cur)>>])
       \/ /\ th.cur \notin inDir \/ faults
          /\ threads' = Move(th, Raise(th, "ReadFailed"))
    /\ UNCHANGED <<faults, runs, ledger, cols, rows, inDir, archive, events, csv_files,
                   started, calls, convCount, okCount, passResult>>

\* df = pd.read_csv(file_path); main: dataframes.append(df), then archive_file;
\* Handler.process: self.dataset_builder.build_dataset([df])
Read(th) ==
    /\ th.pc = "read"
    /\ \/ /\ th.cur \in inDir
          /\ threads' = Move(th, IF th.main
                                 THEN [th EXCEPT !.pc = "archive", !.dfs = Append(@, ReadCsv(th.cur))]
                                 ELSE [th EXCEPT !.pc = "build", !.dfs = <<ReadCsv(th.cur)>>])
       \/ \* no such file, or pandas cannot read it
          /\ th.cur \notin inDir \/ faults
          /\ threads' = Move(th, Raise(th, "ReadFailed"))
    /\ UNCHANGED <<faults, runs, ledger, cols, rows, inDir, archive, events, csv_files,
                   started, calls, convCount, okCount, passResult>>

\* archive_file: shutil.move(file_path, archive_folder/basename)
Archive(th) ==
    /\ th.pc = "archive"
    /\ \/ /\ th.cur \in inDir
          /\ inDir' = inDir \ {th.cur}
          /\ archive' = archive \cup {th.cur}
          /\ threads' = Move(th, [th EXCEPT !.pc = IF th.main THEN "loop" ELSE "clean"])
       \/ \* no such file, or the move fails
          /\ th.cur \notin inDir \/ faults
          /\ threads' = Move(th, Raise(th, "ArchiveFailure"))
          /\ UNCHANGED <<inDir, archive>>
    /\ UNCHANGED <<faults, runs, ledger, cols, rows, events, csv_files, started, calls, convCount,
                   okCount, passResult>>

\* clean_parquet_folder: os.remove of every *.parquet; it is the last call of
\* Handler.process (the thread ends) and of process_existing_files
Clean(th) ==
    /\ th.pc = "clean"
    /\ \/ threads' = IF th.main
                     THEN Move(th, [th EXCEPT !.pc = "observe"])
                     ELSE Ended(th)
       \/ \* os.remove raises
          /\ faults
          /\ threads' = Move(th, Raise(th, "CleanFailure"))
    /\ UNCHANGED <<faults, runs, ledger, cols, rows, inDir, archive, events, csv_files,
                   started, calls, convCount, okCount, passResult>>

----------------------------------------------------------------------------
\* DatasetBuilder.build_dataset, SQLiteDatabaseManager.store_in_db

\* where the caller goes on after build_dataset returned
AfterBuild(th) ==
    IF th.main THEN [th EXCEPT !.pc = "clean", !.missing = {}]
    ELSE [th EXCEPT !.pc = "archive", !.missing = {}, !.dfs = <<>>]

\* build_dataset: nothing to do for an empty list; else pd.to_datetime, pd.concat,
\* store_in_db -> add_missing_columns: PRAGMA table_info(dataset) and the
\* difference, read on a connection of its own
Build(th) ==
    /\ th.pc = "build"
    /\ \/ /\ th.dfs = <<>>
          /\ threads' = Move(th, AfterBuild(th))
       \/ /\ th.dfs # <<>>
          /\ threads' = Move(th, [th EXCEPT !.pc = "alter",
                                    !.missing = MissingColumns(BatchCols(th.dfs), cols)])
       \/ \* pd.to_datetime or the PRAGMA raises
          /\ faults
          /\ th.dfs # <<>>
          /\ threads' = Move(th, Raise(th, "MergeFailed"))
    /\ UNCHANGED <<faults, runs, ledger, cols, rows, inDir, archive, events, csv_files,
                   started, calls, convCount, okCount, passResult>>

\* for column in missing_columns: ALTER TABLE dataset ADD COLUMN column TEXT
\* (each ALTER is committed as it runs; sqlite refuses a column that exists:
\* "duplicate column name"); after the loop conn.commit()
Alter(th) ==
    /\ th.pc = "alter"
    /\ \/ /\ th.missing = {}
          /\ threads' = Move(th, [th EXCEPT !.pc = "append"])
          /\ UNCHANGED cols
       \/ \E c \in th.missing :
             IF c \in cols
             THEN /\ threads' = Move(th, Raise(th, "DuplicateColumn"))
                  /\ UNCHANGED cols
             ELSE /\ cols' = AddColumn(cols, c)
                  /\ threads' = Move(th, [th EXCEPT !.missing = @ \ {c}])
       \/ \* sqlite3 raises (locked database, I/O error)
          /\ faults
          /\ th.missing # {}
          /\ threads' = Move(th, Raise(th, "MergeFailed"))
          /\ UNCHANGED cols
    /\ UNCHANGED <<faults, runs, ledger, rows, inDir, archive, events, csv_files, started,
                   calls, convCount, okCount, passResult>>

\* df.to_sql('dataset', conn, if_exists='append', index=False): one INSERT
\* transaction; it needs every column of df in the table
AppendRows(th) ==
    /\ th.pc = "append"
    /\ \/ /\ BatchCols(th.dfs) \subseteq cols
          /\ rows' = [f \in Files |-> rows[f] + Occurrences(th.dfs, f)]
          /\ cols' = ToSqlColumns(cols, BatchCols(th.dfs))
          /\ threads' = Move(th, AfterBuild(th))
       \/ \* a column of df is not in the table, or sqlite3 raises
          /\ ~(BatchCols(th.dfs) \subseteq cols) \/ faults
          /\ threads' = Move(th, Raise(th, "MergeFailed"))
          /\ UNCHANGED <<rows, cols>>
    /\ UNCHANGED <<faults, runs, ledger, inDir, archive, events, csv_files, started,
                   calls, convCount, okCount, passResult>>

----------------------------------------------------------------------------
\* FileWatcher.run, Handler.on_created, and the world outside

\* process_existing_files has returned (its locals are gone);
\* self.observer.schedule(...); self.observer.start()
StartObserver(th) ==
    /\ th.main /\ th.pc = "observe"
    /\ threads' = Move(th, [th EXCEPT !.pc = "watching", !.dfs = <<>>])
    /\ passResult' = [f \in Files |-> "none"]
    /\ UNCHANGED <<faults, runs, ledger, cols, rows, inDir, archive, events, csv_files,
                   started, calls, convCount, okCount>>

\* mutant: the threads are daemon threads, which end with the main thread
StopDaemonThreads(th) ==
    /\ th.main /\ th.pc = "watching"
    /\ threads' = SetToBag({[th EXCEPT !.pc = "stopped"]})
    /\ events' = {}
    /\ UNCHANGED <<faults, runs, ledger, cols, rows, inDir, archive, csv_files, started,
                   calls, convCount, okCount, passResult>>

\* an exception (KeyboardInterrupt) ends while True: time.sleep(5);
\* self.observer.stop(); self.observer.join().  Started threads are not joined.
Stop(th) ==
    /\ th.main /\ th.pc = "watching"
    /\ threads' = Move(th, [th EXCEPT !.pc = "stopped"])
    /\ events' = {}
    /\ UNCHANGED <<faults, runs, ledger, cols, rows, inDir, archive, csv_files, started,
                   calls, convCount, okCount, passResult>>

Watching == \E th \in Running : th.main /\ th.pc = "watching"

\* a producer writes file f into the input folder, each name once; a running
\* observer queues its creation event
CreateFile(f) ==
    /\ f \notin inDir \cup archive
    /\ inDir' = inDir \cup {f}
    /\ events' = IF Watching THEN events \cup {f} ELSE events
    /\ UNCHANGED <<faults, runs, ledger, cols, rows, archive, threads, csv_files, started,
                   calls, convCount, okCount, passResult>>

\* somebody creates a sub-directory of the input folder (recursive=True)
CreateDir(d) ==
    /\ Watching
    /\ d \notin events
    /\ events' = events \cup {d}
    /\ UNCHANGED <<faults, runs, ledger, cols, rows, inDir, archive, threads, csv_files,
                   started, calls, convCount, okCount, passResult>>

\* mutant: the callback joins the thread it started, so the observer delivers
\* the next event only when that thread has ended
OnCreatedJoined(p, again) ==
    /\ Watching
    /\ p \in events
    /\ \A th \in Running : th.main
    /\ events' = IF again THEN events ELSE events \ {p}
    /\ IF p \in Dirs
       THEN UNCHANGED <<threads, started>>
       ELSE /\ started < MaxWorkers
            /\ started' = started + 1
            /\ threads' = threads (+) SetToBag({WorkerThread(p)})
    /\ UNCHANGED <<faults, runs, ledger, cols, rows, inDir, archive, csv_files, calls, convCount,
                   okCount, passResult>>

\* on_created(event): if not event.is_directory:
\*     Thread(target=self.process, args=(event.src_path,)).start()
\* The observer may deliver the event of one path more than once (again).
OnCreated(p, again) ==
    /\ Watching
    /\ p \in events
    /\ events' = IF again THEN events ELSE events \ {p}
    /\ IF p \in Dirs
       THEN UNCHANGED <<threads, started>>
       ELSE /\ started < MaxWorkers
            /\ started' = started + 1
            /\ threads' = threads (+) SetToBag({WorkerThread(p)})
    /\ UNCHANGED <<faults, runs, ledger, cols, rows, inDir, archive, csv_files, calls, convCount,
                   okCount, passResult>>

----------------------------------------------------------------------------
\* a step of a running thread
ThreadStep ==
    \/ \E th \in Running : StartCatchUp(th)
    \/ \E th \in Running : NextFile(th)
    \/ \E th \in Running : EndLoop(th)
    \/ \E th \in Running : Except(th)
    \/ \E th \in Running : Check(th)
    \/ \E th \in Running : ConvertOk(th)
    \/ \E th \in Running : ConvertFailed(th)
    \/ \E th \in Running : Read(th)
    \/ \E th \in Running : Archive(th)
    \/ \E th \in Running : Clean(th)
    \/ \E th \in Running : Build(th)
    \/ \E th \in Running : Alter(th)
    \/ \E th \in Running : AppendRows(th)
    \/ \E th \in Running : StartObserver(th)
    \/ \E th \in Running : Stop(th)

\* The program and the producers of files.  (The events of directories
\* change nothing but the observer's queue; WatchSpec below has them.)
Next ==
    \/ ThreadStep
    \/ \E f \in Files : CreateFile(f)
    \/ \E p \in Files, again \in BOOLEAN : OnCreated(p, again)

Spec == Init /\ [][Next]_vars

\* The same with sub-directories created in the input folder (each event
\* delivered once).
WatchNext ==
    \/ ThreadStep
    \/ \E f \in Files : CreateFile(f)
    \/ \E d \in Dirs : CreateDir(d)
    \/ \E p \in Files \cup Dirs : OnCreated(p, FALSE)

WatchSpec == Init /\ [][WatchNext]_vars

\* no thread started by on_created is running
NoWorker == \A th \in Running : th.main

\* The same program when deliveries do not overlap: an event is delivered
\* only after the thread of the event before it has ended, so that the calls
\* of convert_csv_to_focus follow one another.
SeqNext ==
    \/ ThreadStep
    \/ \E f \in Files : CreateFile(f)
    \/ \E p \in Files, again \in BOOLEAN : NoWorker /\ OnCreated(p, again)

SeqSpec == Init /\ [][SeqNext]_vars

\* mutant: the program is started on a new, empty processed_files table
RestartFreshLedger(th) ==
    /\ th.main /\ th.pc \in {"stopped", "crashed"}
    /\ NoWorker
    /\ runs < MaxRuns
    /\ runs' = runs + 1
    /\ threads' = SetToBag({MainThread})
    /\ events' = {}
    /\ csv_files' = {}
    /\ passResult' = [f \in Files |-> "none"]
    /\ ledger' = [f \in Files |-> 0]
    /\ UNCHANGED <<faults, cols, rows, inDir, archive, started, calls,
                   convCount, okCount>>

\* The process has ended (the observer was stopped and the started threads
\* have ended, or an exception left Pipeline.run) and the program is started
\* again: init_db creates the tables only IF NOT EXISTS, so the database and
\* the folders are as the last run left them; queued events are gone.
Restart(th) ==
    /\ th.main /\ th.pc \in {"stopped", "crashed"}
    /\ NoWorker
    /\ runs < MaxRuns
    /\ runs' = runs + 1
    /\ threads' = SetToBag({MainThread})
    /\ events' = {}
    /\ csv_files' = {}
    /\ passResult' = [f \in Files |-> "none"]
    /\ UNCHANGED <<faults, ledger, cols, rows, inDir, archive, started, calls,
                   convCount, okCount>>

\* The program run several times on the same database and folders (each
\* event delivered once).
RestartNext ==
    \/ ThreadStep
    \/ \E f \in Files : CreateFile(f)
    \/ \E p \in Files : OnCreated(p, FALSE)
    \/ \E th \in Running : Restart(th)

RestartSpec == Init /\ [][RestartNext]_vars

----------------------------------------------------------------------------
\* state functions used by the properties

\* the threads at work on file f
ThreadsOn(f) == {th \in Running : th.cur = f}

\* a call of convert_csv_to_focus(f) is under way
CallRunning(f) == \E th \in ThreadsOn(f) : th.pc \in {"check", "convert"}

\* a merge (store_in_db) is under way: its ALTERs or its INSERT are still to run
MergeRunning == \E th \in Running : th.pc \in {"alter", "append"}

\* the columns of the files whose rows are in table dataset: the columns of
\* the batches merged so far
MergedCols == UNION {FileCols(f) : f \in {g \in Files : rows[g] > 0}}

\* where the main thread is while process_existing_files runs: in its loop,
\* in its merge (build_dataset), and after the merge
PassLoop == {"loop", "check", "convert", "read", "archive", "except"}
PassMerge == {"build", "alter", "append"}
PassDone == {"clean", "observe"}

\* no per-file pipeline is in progress: the catch-up pass is not running and
\* every thread of on_created has ended
Quiet ==
    /\ NoWorker
    /\ TheMain.pc \in {"start", "observe", "watching", "stopped", "crashed"}

----------------------------------------------------------------------------
\* C1: whatever the interleaving of the catch-up pass and the threads of
\* on_created, and however often the event of one file is delivered, no file
\* is converted more than once and no file's rows are appended to table
\* dataset more than once.  (Stated for the runs in which no storage or file
\* system call raises: the claim covers them, and they suffice to refute it.)
C1_ConvertedAndCountedOnce ==
    ~faults => \A f \in Files : okCount[f] <= 1 /\ rows[f] <= 1

\* C2, as claimed: once convert_csv_to_focus(f) has been called twice, one
\* call after the other, whatever the first call's outcome, f has exactly one
\* row in processed_files and the converter has run at most once for f.
C2_TwoCallsOneRecordOneRun ==
    \A f \in Files :
        (calls[f] >= 2 /\ ~CallRunning(f)) => (ledger[f] = 1 /\ convCount[f] <= 1)

\* C2, amended: when the calls follow one another, f never has more than one
\* row in processed_files, and once f has its row no later call runs the
\* converter for f or changes the row: the second call runs the converter
\* again exactly when the first left no row (the conversion or the mark failed).
C2_OneRecordNoRunAfterIt ==
    [][\A f \in Files :
          /\ ledger'[f] <= 1
          /\ ledger[f] > 0 => (convCount'[f] = convCount[f] /\ ledger'[f] = ledger[f])]_vars

\* C2 witness: the second call for f has ended: it found the row the first
\* call wrote and did not run the converter.
C2_Witness ==
    \E f \in Files :
        /\ calls[f] = 2 /\ ThreadsOn(f) = {}
        /\ ledger[f] = 1 /\ convCount[f] = 1 /\ okCount[f] = 1

\* C3: a conversion that fails is caught inside convert_csv_to_focus: the
\* error reaches no caller's except clause and does not end the main thread,
\* and it writes no row to processed_files (a file has a row only if a
\* conversion of it succeeded), so that a call is refused as already
\* processed only for a file that was converted.
C3_ConversionFailureCaughtNotMarked ==
    /\ \A f \in Files : ledger[f] > 0 => okCount[f] > 0
    /\ \A th \in Running :
          /\ th.exc # "ConversionFailed"
          /\ th.exc = "AlreadyProcessed" => okCount[th.cur] > 0

\* C3 witness: every conversion of f so far failed, the thread that failed
\* has ended, and a later delivery of f has passed the check and is about to
\* run the converter.
C3_Witness ==
    \E th \in Running :
        /\ th.pc = "convert" /\ ThreadsOn(th.cur) = {th} /\ CopiesIn(th, threads) = 1
        /\ convCount[th.cur] >= 1 /\ okCount[th.cur] = 0 /\ ledger[th.cur] = 0

----------------------------------------------------------------------------
\* C4: when in one catch-up pass the conversion of file A fails and that of
\* file B succeeds, then after the pass B's rows are in table dataset, A has
\* no row in processed_files and none of A's rows are in table dataset.
\* (Stated for the runs in which no storage or file system call raises.)
C4_FailureIsolation ==
    (~faults /\ TheMain.pc = "observe") =>
        \A A \in Files, B \in Files :
            (passResult[A] = "ConversionFailed" /\ passResult[B] = "Converted")
                => (rows[B] > 0 /\ ledger[A] = 0 /\ rows[A] = 0)

\* C5: whenever no per-file pipeline is in progress, a file is in the archive
\* folder if and only if it has a row in processed_files.
\* (Stated for the runs in which no storage or file system call raises.)
C5_ArchivedIffRecorded ==
    (~faults /\ Quiet) => \A f \in Files : (f \in archive) <=> (ledger[f] > 0)

\* C6: a file is moved to the archive folder only after its conversion has
\* succeeded and the merge holding its rows has succeeded: a file whose
\* conversion or merge failed or has not run is still in the input folder.
\* (Stated for the runs in which no storage or file system call raises.)
C6_ArchivedOnlyAfterMerge ==
    ~faults => \A f \in archive : okCount[f] > 0 /\ rows[f] > 0

\* C7: a merge is atomic: table dataset never holds a column added for a
\* batch none of whose rows it holds.  (Stated for the states in which no
\* merge is under way: the claim covers them, and they suffice to refute it.)
C7_MergeAtomic ==
    ~MergeRunning => cols \subseteq InitCols \cup MergedCols

\* C8: when two threads merge batches that both bring a column the table
\* lacks, the second ALTER of that column is a no-op or is ignored: no merge
\* is ended by sqlite's refusal of a column that exists.
C8_NoDuplicateColumnFailure ==
    \A th \in Running : th.exc # "DuplicateColumn"

\* C9: no step removes a column of table dataset; every column of a merged
\* batch is in the table; and after batches merged one after the other, none
\* of which raised, the columns are exactly the initial ones and those of
\* the merged batches.
C9_SchemaUnion ==
    [][/\ cols \subseteq cols'
       /\ InitCols \cup MergedCols' \subseteq cols'
       /\ (~faults' /\ started' <= 1 /\ ~MergeRunning')
             => cols' = InitCols \cup MergedCols']_vars

\* C9 witness: batch {a} (columns X, Y) was merged by the catch-up pass, then
\* batch {b} (columns Y, Z) by a thread of on_created; nothing raised; the
\* table has columns id, X, Y, Z.
C9_Witness ==
    /\ ~faults /\ started = 1 /\ NoWorker /\ ~MergeRunning
    /\ rows = [f \in Files |-> 1]
    /\ cols = {"id", "X", "Y", "Z"}

\* C10: no per-file error ends the catch-up pass or the watch loop; in
\* particular a storage failure of the accumulation merge does not end the
\* main thread before it is watching.
C10_MergeFailureDoesNotEndMain ==
    ~(TheMain.pc = "crashed" /\ TheMain.exc = "MergeFailed")

----------------------------------------------------------------------------
\* C11: a storage error raised by is_file_processed or by
\* mark_file_as_processed while the catch-up pass handles file f reaches the
\* caller and ends the handling of f: f's dataframe is not among those to be
\* merged and f is not archived.
C11_LedgerFailureAborts ==
    \A f \in Files :
        passResult[f] \in {"StorageFailure", "MarkFailed"} =>
            /\ f \notin archive
            /\ \A i \in 1..Len(TheMain.dfs) : TheMain.dfs[i].path # f

\* C12: a call of convert_csv_to_focus(f) made when f has a row in
\* processed_files changes nothing and ends in the caller's except clause
\* with the refusal (or with the error of the SELECT, if sqlite3 raises); and
\* the thread that holds the refusal does one more step, which ends its
\* handling of f and changes nothing either: no converter run, no change of
\* processed_files or of table dataset, no file moved.
C12_AlreadyProcessedChangesNothing ==
    [][/\ \A f \in Files :
            (calls'[f] # calls[f] /\ IsFileProcessed(ledger, f)) =>
                /\ UNCHANGED <<ledger, cols, rows, inDir, archive, convCount, okCount>>
                /\ \E th \in ThreadsOn(f) :
                      /\ th.pc = "check"
                      /\ \/ threads' = Move(th, Raise(th, "AlreadyProcessed"))
                         \/ faults /\ threads' = Move(th, Raise(th, "StorageFailure"))
                      /\ Raise(th, "AlreadyProcessed").pc = "except"
       /\ \A th \in Running :
            (th.exc = "AlreadyProcessed" /\ CopiesIn(th, threads') < CopiesIn(th, threads)) =>
                /\ UNCHANGED <<ledger, cols, rows, inDir, archive, convCount, okCount>>
                /\ th.pc = "except"
                /\ threads' = IF th.main
                              THEN Move(th, [th EXCEPT !.pc = "loop", !.exc = "none"])
                              ELSE Ended(th)]_vars

\* C12 witness: the event of an archived file is delivered once more; the
\* call was refused and the thread is in the except clause of Handler.process.
C12_Witness ==
    \E th \in Running :
        /\ ~th.main /\ th.pc = "except" /\ th.exc = "AlreadyProcessed"
        /\ th.cur \in archive /\ ledger[th.cur] = 1 /\ rows[th.cur] = 1

\* C13: a file never has more than one row in processed_files, whatever the
\* interleaving of the threads; a mark of a file that has its row leaves
\* processed_files as it is, and the thread goes on as after any mark.
C13_AtMostOneRecord ==
    [][\A f \in Files :
          /\ ledger'[f] <= 1
          /\ ledger[f] > 0 => ledger'[f] = ledger[f]
          /\ (okCount'[f] # okCount[f] /\ ledger[f] > 0) =>
                \E th \in ThreadsOn(f) :
                    /\ th.pc = "convert"
                    /\ threads' = Move(th, [th EXCEPT !.pc = "read"])]_vars

\* C13 witness: two threads converted the same file and both marked it, no
\* call raised, and the file has one row.
C13_Witness ==
    \E f \in Files : ~faults /\ okCount[f] = 2 /\ ledger[f] = 1

----------------------------------------------------------------------------
\* C14: while the observer runs, a queued creation event of a file can be
\* delivered whatever the threads started before are doing (as long as
\* threads may be started at all); its delivery starts one new thread for that
\* path and nothing else; the delivery of a directory's event starts no
\* thread, and no thread ever handles a directory.
C14_DispatchNeverWaits ==
    /\ [](\A p \in events \cap Files :
            (Watching /\ started < MaxWorkers) => ENABLED OnCreated(p, FALSE))
    /\ [][/\ started' # started =>
                \E p \in events \cap Files :
                    /\ started' = started + 1
                    /\ threads' = threads (+) SetToBag({WorkerThread(p)})
           /\ \A d \in events \cap Dirs :
                (d \notin events' /\ Watching') => UNCHANGED <<threads, started>>
           /\ \A th \in BagToSet(threads') : th.cur \notin Dirs]_vars

\* C14 witness: the thread started for a.csv has not finished its conversion,
\* and meanwhile the thread started for b.csv has run to its end: b.csv is
\* merged and archived.
C14_Witness ==
    /\ Watching /\ started = 2 /\ calls = [f \in Files |-> 1]
    /\ \E th \in Running : ~th.main /\ th.cur = "a" /\ th.pc = "convert"
    /\ convCount["a"] = 0
    /\ ThreadsOn("b") = {} /\ "b" \in archive /\ rows["b"] = 1

----------------------------------------------------------------------------
----------------------------------------------------------------------------
\* C16: in the first run, the catch-up pass takes the files of its glob one
\* after the other, each once, until none is left; it runs before any event
\* is queued and any thread is started; table dataset is untouched until the
\* pass makes its one merge after the loop, which appends the dataframes the
\* pass accumulated, each once, among them that of every file the pass
\* converted (if nothing raised); a pass that visited no file ran no
\* conversion and no merge and left the table as it was.
C16_CatchUpPass ==
    [][/\ csv_files' # csv_files =>
            \/ TheMain.pc = "start" /\ csv_files' = inDir
            \/ /\ TheMain.pc = "loop" /\ TheMain'.pc = "check"
               /\ TheMain'.cur \in csv_files
               /\ csv_files' = csv_files \ {TheMain'.cur}
       /\ (rows' # rows /\ TheMain.pc \in PassLoop \cup PassMerge) =>
            TheMain.pc = "append" /\ TheMain'.pc = "clean"
       /\ TheMain'.pc \in {"start"} \cup PassLoop \cup PassMerge \cup {"clean"} =>
            started' = 0 /\ events' = {} /\ NoWorker'
       /\ TheMain'.pc \in {"start"} \cup PassLoop \cup PassMerge =>
            rows' = [f \in Files |-> 0]
       /\ TheMain'.pc \in PassMerge \cup PassDone =>
            csv_files' = {} /\ TheMain'.cur = NoFile
       /\ TheMain'.pc \in PassDone =>
            /\ \A f \in Files : rows'[f] = Occurrences(TheMain'.dfs, f) /\ rows'[f] <= 1
            /\ ~faults' => \A f \in Files : passResult'[f] = "Converted" => rows'[f] = 1
            /\ (\A f \in Files : calls'[f] = 0) =>
                  /\ \A f \in Files : convCount'[f] = 0 /\ rows'[f] = 0
                  /\ cols' = InitCols]_vars

\* C16 witness: the pass found a.csv and b.csv, converted both, and merged
\* both in its one merge; the observer is about to be started.
C16_Witness ==
    /\ ~faults /\ TheMain.pc = "observe"
    /\ passResult = [f \in Files |-> "Converted"]
    /\ rows = [f \in Files |-> 1]
    /\ Len(TheMain.dfs) = 2
    /\ cols = {"id", "X", "Y", "Z"}

----------------------------------------------------------------------------
\* C17: a restart leaves processed_files, table dataset and the folders as
\* they were; a catch-up pass, in any run, globs only files that are in the
\* input folder and runs the converter only for a file of its glob that has
\* no row in processed_files (when no call raises: only for a file never
\* converted before); at its end its dataframes hold no file it refused as
\* already processed, no file outside its glob, and once each file it ran the
\* converter for, whose rows are then in table dataset.
C17_LedgerSurvivesRestart ==
    [][/\ runs' # runs => UNCHANGED <<ledger, cols, rows, inDir, archive>>
       /\ \A f \in Files :
            (convCount'[f] # convCount[f] /\ TheMain.pc \in PassLoop) =>
                /\ f = TheMain.cur /\ f \in inDir /\ ledger[f] = 0
                /\ ~faults => okCount[f] = 0
       /\ csv_files' \subseteq inDir'
       /\ (~faults' /\ TheMain'.pc \in PassDone) =>
            \A f \in Files :
                /\ passResult'[f] \in {"AlreadyProcessed", "none"} =>
                      Occurrences(TheMain'.dfs, f) = 0
                /\ passResult'[f] = "AlreadyProcessed" => ledger'[f] = 1
                /\ passResult'[f] \in {"Converted", "ConversionFailed"} =>
                      Occurrences(TheMain'.dfs, f) = 1 /\ rows'[f] >= 1]_vars

\* C17 witness: a.csv was converted, merged and archived in the first run;
\* the program was started again with b.csv new in the input folder; the
\* catch-up pass of the second run has ended: it did not visit a.csv and it
\* converted and merged b.csv.
C17_Witness ==
    /\ ~faults /\ runs = 2 /\ TheMain.pc = "observe"
    /\ "a" \in archive /\ passResult["a"] = "none"
    /\ calls["a"] = 1 /\ okCount["a"] = 1 /\ rows["a"] = 1
    /\ passResult["b"] = "Converted" /\ okCount["b"] = 1 /\ rows["b"] = 1

----------------------------------------------------------------------------
\* C18: a dataframe that a thread holds for merging, read for a file whose
\* conversion succeeded, is the rows the converter exported for that file,
\* not the rows of the source file.
C18_AccumulatesConverterOutput ==
    \A th \in Running : \A i \in 1..Len(th.dfs) :
        okCount[th.dfs[i].path] > 0 => th.dfs[i] = Exported(th.dfs[i].path)

\* C19: whenever no per-file pipeline is in progress, the rows of every file
\* that has a row in processed_files are in table dataset.
C19_RecordedImpliesMerged ==
    Quiet => \A f \in Files : ledger[f] > 0 => rows[f] > 0

\* C20: whenever the observer runs, no event is queued and no started thread
\* is running, every file in the input folder has been handed to
\* convert_csv_to_focus at least once, by the catch-up pass or by a thread of
\* on_created.
C20_NoFileMissed ==
    (Watching /\ NoWorker /\ events = {}) => \A f \in inDir : calls[f] >= 1

====
